---------------------------- MODULE Spec2Model ----------------------------
(***************************************************************************)
(* Model of src/query/functions/temporal/rate.go: the irate / idelta       *)
(* temporal functions.  NewRateOp validates the operator type, newRateNode *)
(* builds the processor, rateNode.Process dispatches on the operator type  *)
(* and instantValue reduces one window of float64 samples, scanning it     *)
(* backwards with findNonNanIdx.                                           *)
(*                                                                         *)
(* float64 values are modelled as pairs <<n, d>>:                          *)
(*   d > 0        the rational n/d in lowest terms                         *)
(*   <<1, 0>>     +Inf        <<-1, 0>>   -Inf        <<0, 0>>   NaN       *)
(* Arithmetic follows IEEE-754 for NaN, infinities and division by zero;   *)
(* finite results are exact (the sample and step values used below are     *)
(* small integers and halves of a second, for which float64 subtraction    *)
(* is exact).  Negative zero is not represented.                           *)
(*                                                                         *)
(* Go slices are 0-based: index i of a slice is element i+1 of the         *)
(* sequence that models it.                                                *)
(***************************************************************************)
EXTENDS Integers, Sequences, FiniteSets, TLC

\* Longest window the model passes to Process.
MaxLen == 4

----------------------------------------------------------------------------
(* float64 *)

NaN == <<0, 0>>

Inf(sign) == <<sign, 0>>

Zero == <<0, 1>>

FromInt(v) == <<v, 1>>

Abs(x) == IF x < 0 THEN -x ELSE x

Sgn(x) == IF x < 0 THEN -1 ELSE IF x > 0 THEN 1 ELSE 0

RECURSIVE GCD(_, _)
GCD(a, b) == IF b = 0 THEN a ELSE GCD(b, a % b)

\* The rational n/d (d # 0) in lowest terms with a positive denominator.
Norm(n, d) ==
    LET g == GCD(Abs(n), Abs(d))
    IN  <<(Sgn(d) * n) \div g, Abs(d) \div g>>

\* math.IsNaN
IsNaN(x) == x = NaN

IsInf(x) == x[2] = 0 /\ x[1] # 0

\* a < b on float64: false as soon as one side is NaN.
Less(a, b) ==
    IF IsNaN(a) \/ IsNaN(b) \/ a = b THEN FALSE
    ELSE IF IsInf(a) THEN a[1] < 0
    ELSE IF IsInf(b) THEN b[1] > 0
    ELSE a[1] * b[2] < b[1] * a[2]

\* a - b on float64.
Sub(a, b) ==
    IF IsNaN(a) \/ IsNaN(b) THEN NaN
    ELSE IF IsInf(a) THEN (IF IsInf(b) /\ a[1] = b[1] THEN NaN ELSE a)
    ELSE IF IsInf(b) THEN Inf(-b[1])
    ELSE Norm(a[1] * b[2] - b[1] * a[2], a[2] * b[2])

\* a / b on float64 (a zero divisor is +0).
Div(a, b) ==
    IF IsNaN(a) \/ IsNaN(b) THEN NaN
    ELSE IF IsInf(a) THEN (IF IsInf(b) THEN NaN
                           ELSE Inf(a[1] * (IF b[1] < 0 THEN -1 ELSE 1)))
    ELSE IF IsInf(b) THEN Zero
    ELSE IF b[1] = 0 THEN (IF a[1] = 0 THEN NaN ELSE Inf(Sgn(a[1])))
    ELSE Norm(a[1] * b[2], a[2] * b[1])

\* math.Pow10
Pow10(n) == 10 ^ n

----------------------------------------------------------------------------
(* Inputs *)

\* Values a window position can hold: a gap, +Inf, and small finite samples.
SampleVals == {NaN, Inf(1)} \cup {FromInt(v) : v \in -1 .. 2}

\* Windows handed to Process.
Windows == UNION {[1 .. n -> SampleVals] : n \in 0 .. MaxLen}

\* time.Duration values (nanoseconds) of TimeSpec.Step: 0.5s, 1s, 2s.
StepVals == {Pow10(9) \div 2, Pow10(9), 2 * Pow10(9)}

\* time.Duration is an int64: nothing in rate.go keeps a step positive.
\* -0.5s, 0, 0.5s, 1s.
AnyStepVals == {(k * Pow10(9)) \div 2 : k \in -1 .. 2}

\* Operator type strings handed to NewRateOp.
IRateTemporalType == "irate"

IDeltaTemporalType == "idelta"

OpTypes == {IRateTemporalType, IDeltaTemporalType, "rate", "delta", ""}


----------------------------------------------------------------------------
(* State *)

VARIABLES
    pc,          \* "start", "compiled", "ready", "idle": between calls;
                 \* "instantValue", "find1", "after1", "find2", "after2":
                 \* inside a Process call; "done": the call has its result;
                 \* "panic": the goroutine panicked
    optype,      \* NewRateOp: the optype argument of the latest call
    params,      \* NewRateOp: returned transform.Params, <<>> for nil
    err,         \* NewRateOp: returned error, <<>> for nil
    r,           \* the rateNode built by newRateNode, <<>> before that
    values,      \* Process / instantValue: the window argument
    isRate,      \* instantValue: argument
    stepSize,    \* instantValue: argument
    i,           \* findNonNanIdx: loop variable
    nonNanIdx,   \* instantValue: local
    lastSample,  \* instantValue: local
    result,      \* the float64 the call returns
    reads,       \* indices of values the call has read so far
    prev         \* <<x>> when the preceding call on r had the same window
                 \* and returned x, <<>> otherwise

vars == <<pc, optype, params, err, r, values, isRate, stepSize, i, nonNanIdx,
          lastSample, result, reads, prev>>

factoryVars == <<optype, params, err>>

callVars == <<values, isRate, stepSize, i, nonNanIdx, lastSample, result,
              reads, prev>>

\* vals[idx] of a Go slice.
At(vals, idx) == vals[idx + 1]

Init ==
    /\ pc = "start"
    /\ optype = ""
    /\ params = <<>>
    /\ err = <<>>
    /\ r = <<>>
    /\ values = <<>>
    /\ isRate = FALSE
    /\ stepSize = 0
    /\ i = 0
    /\ nonNanIdx = 0
    /\ lastSample = Zero
    /\ result = NaN
    /\ reads = {}
    /\ prev = <<>>

----------------------------------------------------------------------------
(* Operator factory *)

\* fmt.Errorf("unknown rate type: %s", optype)
UnknownRateType(t) == [msg |-> "unknown rate type", arg |-> t]

\* newBaseOp (not part of rate.go): on valid args a baseOp carrying the
\* operator type and no error; otherwise an error of its own and no op.
newBaseOp(argsOk, operatorType) ==
    IF argsOk
    THEN [params |-> <<[operatorType |-> operatorType]>>, err |-> <<>>]
    ELSE [params |-> <<>>,
          err |-> <<[msg |-> "invalid args", arg |-> operatorType]>>]

\* NewRateOp with the test written with != on both sides, which every
\* string passes.
NewRateOp_AcceptsAll ==
    /\ pc \in {"start", "compiled"}
    /\ \E t \in OpTypes, argsOk \in BOOLEAN :
         /\ optype' = t
         /\ IF t # IRateTemporalType \/ t # IDeltaTemporalType
            THEN /\ params' = newBaseOp(argsOk, t).params
                 /\ err' = newBaseOp(argsOk, t).err
            ELSE /\ params' = <<>>
                 /\ err' = <<UnknownRateType(t)>>
    /\ pc' = "compiled"
    /\ UNCHANGED <<r, callVars>>

NewRateOp ==
    /\ pc \in {"start", "compiled"}
    /\ \E t \in OpTypes, argsOk \in BOOLEAN :
         /\ optype' = t
         /\ IF t = IRateTemporalType \/ t = IDeltaTemporalType
            THEN /\ params' = newBaseOp(argsOk, t).params
                 /\ err' = newBaseOp(argsOk, t).err
            ELSE /\ params' = <<>>
                 /\ err' = <<UnknownRateType(t)>>
    /\ pc' = "compiled"
    /\ UNCHANGED <<r, callVars>>

newRateNodeWith(steps) ==
    /\ pc = "compiled"
    /\ err = <<>>
    /\ \E step \in steps :
         r' = <<[op |-> params[1], timeSpec |-> [Step |-> step]]>>
    /\ pc' = "ready"
    /\ UNCHANGED <<factoryVars, callVars>>

newRateNode == newRateNodeWith(StepVals)

newRateNodeAnyStep == newRateNodeWith(AnyStepVals)

----------------------------------------------------------------------------
(* rateNode.Process and instantValue *)

\* Process with the two cases of the switch exchanged.
Process_Swapped ==
    /\ pc \in {"ready", "idle"}
    /\ \E vals \in (IF pc = "ready" THEN Windows ELSE {values}) :
         values' = vals
    /\ prev' = IF pc = "idle" THEN <<result>> ELSE <<>>
    /\ IF r[1].op.operatorType = IRateTemporalType
       THEN isRate' = FALSE /\ pc' = "instantValue"
       ELSE IF r[1].op.operatorType = IDeltaTemporalType
       THEN isRate' = TRUE /\ pc' = "instantValue"
       ELSE isRate' = FALSE /\ pc' = "panic"
    /\ stepSize' = r[1].timeSpec.Step
    /\ i' = 0
    /\ nonNanIdx' = 0
    /\ lastSample' = Zero
    /\ result' = NaN
    /\ reads' = {}
    /\ UNCHANGED <<factoryVars, r>>

\* Process that converts r.timeSpec.Step in place on every call (here: halves
\* it), so that the node carries state from one call to the next.
Process_StepDrift ==
    /\ pc \in {"ready", "idle"}
    /\ \E vals \in (IF pc = "ready" THEN Windows ELSE {values}) :
         values' = vals
    /\ prev' = IF pc = "idle" THEN <<result>> ELSE <<>>
    /\ IF r[1].op.operatorType = IRateTemporalType
       THEN isRate' = TRUE /\ pc' = "instantValue"
       ELSE IF r[1].op.operatorType = IDeltaTemporalType
       THEN isRate' = FALSE /\ pc' = "instantValue"
       ELSE isRate' = FALSE /\ pc' = "panic"
    /\ stepSize' = r[1].timeSpec.Step
    /\ r' = <<[r[1] EXCEPT !.timeSpec.Step = @ \div 2]>>
    /\ i' = 0
    /\ nonNanIdx' = 0
    /\ lastSample' = Zero
    /\ result' = NaN
    /\ reads' = {}
    /\ UNCHANGED factoryVars

\* A call of Process on r.  From "ready" the caller passes any window; from
\* "idle" it passes the window of the call that just returned once more.
Process ==
    /\ pc \in {"ready", "idle"}
    /\ \E vals \in (IF pc = "ready" THEN Windows ELSE {values}) :
         values' = vals
    /\ prev' = IF pc = "idle" THEN <<result>> ELSE <<>>
    /\ IF r[1].op.operatorType = IRateTemporalType
       THEN isRate' = TRUE /\ pc' = "instantValue"
       ELSE IF r[1].op.operatorType = IDeltaTemporalType
       THEN isRate' = FALSE /\ pc' = "instantValue"
       ELSE isRate' = FALSE /\ pc' = "panic"
    /\ stepSize' = r[1].timeSpec.Step
    /\ i' = 0
    /\ nonNanIdx' = 0
    /\ lastSample' = Zero
    /\ result' = NaN
    /\ reads' = {}
    /\ UNCHANGED <<factoryVars, r>>

\* instantValue with the length check off by one (valuesLen < 1).
instantValue_LenOffByOne ==
    /\ pc = "instantValue"
    /\ LET valuesLen == Len(values) IN
       IF valuesLen < 1
       THEN /\ result' = NaN
            /\ pc' = "done"
            /\ UNCHANGED <<i, nonNanIdx>>
       ELSE /\ nonNanIdx' = valuesLen - 1
            /\ i' = valuesLen - 1
            /\ pc' = "find1"
            /\ UNCHANGED result
    /\ UNCHANGED <<factoryVars, r, values, isRate, stepSize, lastSample,
                   reads, prev>>

\* Lines 87-94: the length check, then the first backward scan starts at
\* the newest position.
instantValue ==
    /\ pc = "instantValue"
    /\ LET valuesLen == Len(values) IN
       IF valuesLen < 2
       THEN /\ result' = NaN
            /\ pc' = "done"
            /\ UNCHANGED <<i, nonNanIdx>>
       ELSE /\ nonNanIdx' = valuesLen - 1
            /\ i' = valuesLen - 1
            /\ pc' = "find1"
            /\ UNCHANGED result
    /\ UNCHANGED <<factoryVars, r, values, isRate, stepSize, lastSample,
                   reads, prev>>

\* findNonNanIdx with the loop condition i > 0: index 0 is never inspected.
findNonNanIdx_SkipsIndex0 ==
    /\ pc \in {"find1", "find2"}
    /\ IF i > 0
       THEN IF i >= Len(values)
            THEN /\ pc' = "panic"
                 /\ UNCHANGED <<i, nonNanIdx, reads>>
            ELSE /\ reads' = reads \cup {i}
                 /\ IF ~IsNaN(At(values, i))
                    THEN /\ nonNanIdx' = i
                         /\ pc' = IF pc = "find1" THEN "after1" ELSE "after2"
                         /\ UNCHANGED i
                    ELSE /\ i' = i - 1
                         /\ UNCHANGED <<pc, nonNanIdx>>
       ELSE /\ nonNanIdx' = -1
            /\ pc' = IF pc = "find1" THEN "after1" ELSE "after2"
            /\ UNCHANGED <<i, reads>>
    /\ UNCHANGED <<factoryVars, r, values, isRate, stepSize, lastSample,
                   result, prev>>

\* One iteration of the loop of findNonNanIdx, or its exit.  The index it
\* returns is assigned to nonNanIdx by the caller (lines 94 and 100).
findNonNanIdx ==
    /\ pc \in {"find1", "find2"}
    /\ IF i >= 0
       THEN IF i >= Len(values)
            THEN /\ pc' = "panic"
                 /\ UNCHANGED <<i, nonNanIdx, reads>>
            ELSE /\ reads' = reads \cup {i}
                 /\ IF ~IsNaN(At(values, i))
                    THEN /\ nonNanIdx' = i
                         /\ pc' = IF pc = "find1" THEN "after1" ELSE "after2"
                         /\ UNCHANGED i
                    ELSE /\ i' = i - 1
                         /\ UNCHANGED <<pc, nonNanIdx>>
       ELSE /\ nonNanIdx' = -1
            /\ pc' = IF pc = "find1" THEN "after1" ELSE "after2"
            /\ UNCHANGED <<i, reads>>
    /\ UNCHANGED <<factoryVars, r, values, isRate, stepSize, lastSample,
                   result, prev>>

\* instantValueLast with the test nonNanIdx < 2.
instantValueLast_OffByOne ==
    /\ pc = "after1"
    /\ IF nonNanIdx < 2
       THEN /\ result' = NaN
            /\ pc' = "done"
            /\ UNCHANGED <<i, lastSample, reads>>
       ELSE /\ lastSample' = At(values, nonNanIdx)
            /\ reads' = reads \cup {nonNanIdx}
            /\ i' = nonNanIdx - 1
            /\ pc' = "find2"
            /\ UNCHANGED result
    /\ UNCHANGED <<factoryVars, r, values, isRate, stepSize, nonNanIdx, prev>>

\* Lines 96-100: with the newest non-NaN value at index 0, or none at all,
\* the result is NaN; otherwise the second scan starts right below it.
instantValueLast ==
    /\ pc = "after1"
    /\ IF nonNanIdx < 1
       THEN /\ result' = NaN
            /\ pc' = "done"
            /\ UNCHANGED <<i, lastSample, reads>>
       ELSE /\ lastSample' = At(values, nonNanIdx)
            /\ reads' = reads \cup {nonNanIdx}
            /\ i' = nonNanIdx - 1
            /\ pc' = "find2"
            /\ UNCHANGED result
    /\ UNCHANGED <<factoryVars, r, values, isRate, stepSize, nonNanIdx, prev>>

\* resultValue whose counter-reset branch takes previousSample.
resultValue_ResetTakesPrevious(rate, last, previous, step) ==
    LET raw == IF rate /\ Less(last, previous)
               THEN previous
               ELSE Sub(last, previous)
    IN  IF rate
        THEN Div(raw, Div(FromInt(step), FromInt(Pow10(9))))
        ELSE raw

\* resultValue whose counter-reset test does not look at isRate.
resultValue_ResetInDelta(rate, last, previous, step) ==
    LET raw == IF Less(last, previous)
               THEN last
               ELSE Sub(last, previous)
    IN  IF rate
        THEN Div(raw, Div(FromInt(step), FromInt(Pow10(9))))
        ELSE raw

\* resultValue without the counter-reset branch.
resultValue_NoReset(rate, last, previous, step) ==
    LET raw == Sub(last, previous)
    IN  IF rate
        THEN Div(raw, Div(FromInt(step), FromInt(Pow10(9))))
        ELSE raw

\* Lines 106-118: the counter-reset rule and the per-second normalisation.
resultValue(rate, last, previous, step) ==
    LET raw == IF rate /\ Less(last, previous)
               THEN last
               ELSE Sub(last, previous)
    IN  IF rate
        THEN Div(raw, Div(FromInt(step), FromInt(Pow10(9))))
        ELSE raw

\* instantValuePrevious without the nonNanIdx == -1 test: values[-1] is
\* read, which panics with an index out of range.
instantValuePrevious_NoCheck ==
    /\ pc = "after2"
    /\ IF nonNanIdx < 0 \/ nonNanIdx >= Len(values)
       THEN /\ pc' = "panic"
            /\ UNCHANGED <<result, reads>>
       ELSE /\ result' = resultValue(isRate, lastSample,
                                     At(values, nonNanIdx), stepSize)
            /\ reads' = reads \cup {nonNanIdx}
            /\ pc' = "done"
    /\ UNCHANGED <<factoryVars, r, values, isRate, stepSize, i, nonNanIdx,
                   lastSample, prev>>

\* Lines 101-118.
instantValuePrevious ==
    /\ pc = "after2"
    /\ IF nonNanIdx = -1
       THEN /\ result' = NaN
            /\ UNCHANGED reads
       ELSE /\ result' = resultValue(isRate, lastSample,
                                     At(values, nonNanIdx), stepSize)
            /\ reads' = reads \cup {nonNanIdx}
    /\ pc' = "done"
    /\ UNCHANGED <<factoryVars, r, values, isRate, stepSize, i, nonNanIdx,
                   lastSample, prev>>

\* Process hands the float64 back to its caller (lines 67 and 69).
Return ==
    /\ pc = "done"
    /\ pc' = "idle"
    /\ UNCHANGED <<factoryVars, r, callVars>>

\* The caller moves on to its next window: the arguments, locals and
\* return value of the finished call are gone, r stays.
Advance ==
    /\ pc = "idle"
    /\ pc' = "ready"
    /\ values' = <<>>
    /\ isRate' = FALSE
    /\ stepSize' = 0
    /\ i' = 0
    /\ nonNanIdx' = 0
    /\ lastSample' = Zero
    /\ result' = NaN
    /\ reads' = {}
    /\ prev' = <<>>
    /\ UNCHANGED <<factoryVars, r>>

Next ==
    \/ NewRateOp
    \/ newRateNode
    \/ Process
    \/ instantValue
    \/ findNonNanIdx
    \/ instantValueLast
    \/ instantValuePrevious
    \/ Return
    \/ Advance

Spec == Init /\ [][Next]_vars

\* The same program with a TimeSpec.Step that may be zero or negative.
NextAnyStep ==
    \/ NewRateOp
    \/ newRateNodeAnyStep
    \/ Process
    \/ instantValue
    \/ findNonNanIdx
    \/ instantValueLast
    \/ instantValuePrevious
    \/ Return
    \/ Advance

SpecAnyStep == Init /\ [][NextAnyStep]_vars

----------------------------------------------------------------------------
(* Properties *)

\* Indices of the window positions that hold a value (not a gap).
NonGaps(w) == {k \in 0 .. Len(w) - 1 : ~IsNaN(At(w, k))}

MaxOf(S) == CHOOSE x \in S : \A y \in S : y <= x

HasTwo(w) == Cardinality(NonGaps(w)) >= 2

\* The value at the highest non-gap index, and the value at the highest
\* non-gap index strictly below it.
Last(w) == At(w, MaxOf(NonGaps(w)))

Previous(w) == At(w, MaxOf(NonGaps(w) \ {MaxOf(NonGaps(w))}))

\* A duration in nanoseconds, expressed in seconds.
StepSeconds(step) == Norm(step, 1000000000)

AllFinite(w) == \A k \in NonGaps(w) : ~IsInf(At(w, k))

AllNonNegative(w) == \A k \in NonGaps(w) : ~Less(At(w, k), Zero)

\* A Rate-mode call has returned for a window whose two most recent values
\* show a counter reset.
ResetCase ==
    /\ pc = "done"
    /\ isRate
    /\ HasTwo(values)
    /\ Less(Last(values), Previous(values))

C2_RateIsDifferenceOverStep ==
    (pc = "done" /\ isRate /\ HasTwo(values)
       /\ ~Less(Last(values), Previous(values))) =>
        result = Div(Sub(Last(values), Previous(values)),
                     StepSeconds(stepSize))

C2_Witness ==
    /\ pc = "done"
    /\ isRate
    /\ values = <<FromInt(2), FromInt(0), NaN, NaN, FromInt(1)>>
           \/ values = <<FromInt(0), NaN, FromInt(1), NaN>>
    /\ stepSize = Pow10(9) \div 2
    /\ result = FromInt(2)

\* C3: in Delta mode, with two non-gap values, the call returns exactly
\* last - previous, whatever their order and whatever the step.
C3_DeltaIsDifference ==
    (pc = "done" /\ ~isRate /\ HasTwo(values)) =>
        result = Sub(Last(values), Previous(values))

C3_Witness ==
    /\ pc = "done"
    /\ ~isRate
    /\ values = <<FromInt(2), NaN, FromInt(1)>>
    /\ stepSize = Pow10(9) \div 2
    /\ result = FromInt(-1)

\* C4: for a window with fewer than two non-gap values the call does not
\* panic and returns NaN, in both modes.
C4_FewerThanTwoValuesIsNaN ==
    (pc \notin {"start", "compiled", "ready"}
       /\ Cardinality(NonGaps(values)) < 2) =>
        /\ pc # "panic"
        /\ pc = "done" => IsNaN(result)

C4_Witness ==
    /\ pc = "done"
    /\ Len(values) = 3
    /\ NonGaps(values) = {1}
    /\ IsNaN(result)

\* C5: for a window of fewer than 2 positions the call returns NaN without
\* reading any position, in both modes and for every step.
C5_ShortWindowIsNaNUnread ==
    (pc = "done" /\ Len(values) < 2) => (IsNaN(result) /\ reads = {})

C5_Witness ==
    /\ pc = "done"
    /\ values = <<FromInt(1)>>
    /\ isRate
    /\ IsNaN(result)
    /\ reads = {}

\* C6: NewRateOp returns the unknown-rate-type error carrying the token, and
\* no params, for every operator type other than "irate" and "idelta"; for
\* these two it does not return that error.
C6_UnknownTypeRejected ==
    pc # "start" =>
        IF optype \notin {"irate", "idelta"}
        THEN /\ err = <<[msg |-> "unknown rate type", arg |-> optype]>>
             /\ params = <<>>
             /\ r = <<>>
        ELSE err = <<>> \/ err[1].msg # "unknown rate type"

C6_Witness ==
    /\ pc = "compiled"
    /\ optype = "rate"
    /\ err # <<>>
    /\ params = <<>>

C8_ModeFixedAtConstruction ==
    /\ [](/\ pc # "panic"
          /\ r # <<>> =>
               /\ optype \in {"irate", "idelta"}
               /\ r[1].op.operatorType = optype
          /\ pc \in {"instantValue", "find1", "after1", "find2", "after2",
                     "done"} =>
               /\ isRate <=> optype = "irate"
               /\ ~isRate <=> optype = "idelta"
               /\ stepSize = r[1].timeSpec.Step)
    /\ [][r # <<>> => r' = r]_vars

C8_Witness ==
    /\ pc = "done"
    /\ optype = "irate"
    /\ isRate
    /\ prev # <<>>
    /\ values = <<FromInt(2), FromInt(1)>>
    /\ result = Div(FromInt(1), StepSeconds(r[1].timeSpec.Step))

C10_RateNonNegative ==
    (pc = "done" /\ isRate /\ AllNonNegative(values) /\ stepSize > 0
       /\ ~IsNaN(result)) =>
        /\ ~Less(result, Zero)
        /\ HasTwo(values)
        /\ result = IF Less(Last(values), Previous(values))
                    THEN Div(Last(values), StepSeconds(stepSize))
                    ELSE Div(Sub(Last(values), Previous(values)),
                             StepSeconds(stepSize))

C10_Witness ==
    /\ ResetCase
    /\ AllNonNegative(values)
    /\ stepSize > 0
    /\ Less(Zero, result)
    /\ Len(values) = 3

============================================================================
